---- MODULE Spec2Model ----
(***************************************************************************)
(* Model of the Coulomb-matrix notebook                                    *)
(* Psi4Education/Machine_Learning/Machine_Learning_Student_Cavity.ipynb.   *)
(*                                                                         *)
(* The notebook kernel is a sequential state machine: its state is the     *)
(* set of notebook globals (geoms, qs, Es, rs, couls, coul), the numpy  *)
(* arrays allocated so far, and the position inside the cell that is       *)
(* running.  The specifications are:                                       *)
(*   Spec          the kernel running the data-generation, Coulomb-matrix, *)
(*                 training, kernel-ridge and hypersurface cells, in any   *)
(*                 order, a bounded number of times;                       *)
(*   SpecData      the data-generation cell executed again and again;      *)
(*   SpecCall      one call of coulomb on an input from a bounded set;     *)
(*   SpecPar       the iterations of the batch loop in any interleaving;   *)
(*   SpecBatch     the Coulomb-matrix cell on any lists geoms and qs;      *)
(*   SpecESOL      the split and scaler cells of 08_ESOL_machine_learning; *)
(*   SpecAromatic  one call of aromatic_calc of that notebook.             *)
(*                                                                         *)
(* Numbers.  Coordinates and charges are integers (coordinates in one      *)
(* common length unit; in the notebook the unit is 1e-4 Bohr).  A matrix   *)
(* entry is a float; it is modelled as a quotient [num, den] of integers,  *)
(* den = 0 standing for the IEEE results of a division by zero (Inf when   *)
(* num # 0, NaN when num = 0).                                             *)
(***************************************************************************)
EXTENDS Integers, Sequences, FiniteSets, TLC

VARIABLES
    pc,        \* position of the kernel: "idle" or a place inside a cell
    defined,   \* names of the notebook globals that have been assigned
    geoms,     \* list of geometries, one per bond length
    qs,        \* list of charge lists
    Es,        \* list of SCF energies
    rs,        \* list of bond lengths (1/100 Angstrom)
    couls,     \* list of Coulomb matrices (references into heap)
    coul,      \* global coul: reference returned by the last batch call
    it,        \* position of the running loop's iterator (items consumed)
    heap,      \* numpy arrays allocated by coulomb, by reference
    err,       \* exception that ended the last cell, "none" if it completed
    runs,      \* number of cells started so far
    call,      \* a single call of coulomb: arguments and outcome
    ml,        \* globals of the training cells: trainers, testers, X_train,
               \* y_train, X_test, y_test, y_pred, and the fit/predict calls made
    esol,      \* kernel of the ESOL notebook (08_ESOL_machine_learning)
    par        \* per-geometry results not yet collected (SpecPar)

vars == <<pc, defined, geoms, qs, Es, rs, couls, coul, it, heap, err, runs, call, ml, esol, par>>

nbvars == <<pc, defined, geoms, qs, Es, rs, couls, coul, it, heap, err, runs, ml, esol, par>>

(***************************************************************************)
(* Bounds                                                                  *)
(***************************************************************************)
MaxAtoms == 3

MaxRuns == 4

(***************************************************************************)
(* Program constants                                                       *)
(***************************************************************************)
(* range(0,30): one bond length short *)
NPoints_short == 31 - 1

NPoints == 31

NWaterAtoms == 3

RStart == 50

(* increments of 0.10 *)
RStep_wide == 2 * 5

RStep == 5

(* H-O-H angle 104.5 degrees: cosine and sine in units of 1e-4 *)
CosHOH == -2504

SinHOH == 9681

(* 1 Angstrom = 1.889726 Bohr; psi4 returns geometries in Bohr *)
BohrPerAngstromE6 == 1889726

(***************************************************************************)
(* Floats as quotients                                                     *)
(***************************************************************************)
Float(n) == [num |-> n, den |-> 1]

Zero == Float(0)

IsFinite(e) == e.den # 0

(***************************************************************************)
(* numpy: np.zeros((n,n)) is an n x n array of 0.0; n = 0 gives the empty  *)
(* array.                                                                  *)
(***************************************************************************)
(* np.ones for np.zeros *)
np_ones(n) == [r \in 1..n |-> [c \in 1..n |-> Float(1)]]

np_zeros(n) == [r \in 1..n |-> [c \in 1..n |-> Zero]]

(***************************************************************************)
(* The quantities of the notebook's Coulomb-matrix equation                *)
(*   C_ij = Z_i Z_j / r_ij (i # j),   C_ii = 0.5 Z_i^2.4.                  *)
(***************************************************************************)
Quot(n, d) == [num |-> n, den |-> d]

Dist2(a, b) ==
    (a[1] - b[1]) * (a[1] - b[1]) + (a[2] - b[2]) * (a[2] - b[2])
      + (a[3] - b[3]) * (a[3] - b[3])

RECURSIVE SqrtSearch(_, _, _)
SqrtSearch(n, lo, hi) ==
    IF lo = hi THEN lo
    ELSE LET mid == (lo + hi + 1) \div 2
         IN  IF mid * mid <= n THEN SqrtSearch(n, mid, hi) ELSE SqrtSearch(n, lo, mid - 1)

(* r_ij, rounded down to the unit; exact on the grid of SpecCall *)
Norm(a, b) == SqrtSearch(Dist2(a, b), 0, 46340)

Dot(a, b) == a[1] * b[1] + a[2] * b[2] + a[3] * b[3]

(* 0.5 * z^2.4 (real power) in units of 1e-6, for the charges used *)
HalfPow2_4E6(z) ==
    CASE z = 0 -> 0
      [] z = 1 -> 500000
      [] z = 8 -> 73516695

(* an IndexError is raised when the fill reads geom[i] past its end *)
GeomTooShort(geom, q) == Len(q) >= 2 /\ Len(geom) < Len(q)

(***************************************************************************)
(* Variants of coulomb with a filling loop, each with one slip.            *)
(***************************************************************************)
(* fills the upper triangle only and forgets cm[j][i] *)
coulomb_upper(geom, q) ==
    LET natom == Len(q)
    IN  IF GeomTooShort(geom, q)
          THEN [exc |-> "IndexError", value |-> <<>>]
          ELSE [exc |-> "none",
                value |-> [r \in 1..natom |-> [c \in 1..natom |->
                            IF c > r THEN Quot(q[r] * q[c], Norm(geom[r], geom[c]))
                            ELSE Zero]]]

(* fills the matrix by the equation, dividing by r_ij whatever it is *)
coulomb_divide(geom, q) ==
    LET natom == Len(q)
    IN  IF GeomTooShort(geom, q)
          THEN [exc |-> "IndexError", value |-> <<>>]
          ELSE [exc |-> "none",
                value |-> [r \in 1..natom |-> [c \in 1..natom |->
                            IF c # r THEN Quot(q[r] * q[c], Norm(geom[r], geom[c]))
                            ELSE Quot(HalfPow2_4E6(q[r]), 1000000)]]]

(* rejects an empty charge list *)
coulomb_checked(geom, q) ==
    LET natom == Len(q)
    IN  IF natom = 0
          THEN [exc |-> "ValueError", value |-> <<>>]
          ELSE [exc |-> "none", value |-> np_zeros(natom)]

(* fills the off-diagonal with Z_0 Z_j / r_ij: q[0] for q[i] *)
coulomb_firstcharge(geom, q) ==
    LET natom == Len(q)
    IN  IF GeomTooShort(geom, q)
          THEN [exc |-> "IndexError", value |-> <<>>]
          ELSE [exc |-> "none",
                value |-> [r \in 1..natom |-> [c \in 1..natom |->
                            IF c # r THEN Quot(q[1] * q[c], Norm(geom[r], geom[c]))
                            ELSE Zero]]]

(* fills the off-diagonal with (Z_i + Z_j) / r_ij, a sum for the product *)
coulomb_sum(geom, q) ==
    LET natom == Len(q)
    IN  IF GeomTooShort(geom, q)
          THEN [exc |-> "IndexError", value |-> <<>>]
          ELSE [exc |-> "none",
                value |-> [r \in 1..natom |-> [c \in 1..natom |->
                            IF c # r THEN Quot(q[r] + q[c], Norm(geom[r], geom[c]))
                            ELSE Zero]]]

(* takes natom = len(geom) *)
coulomb_bygeom(geom, q) ==
    [exc |-> "none", value |-> np_zeros(Len(geom))]

(***************************************************************************)
(* coulomb(geom, q): the function as it stands in the notebook.  natom is  *)
(* len(q); cm is np.zeros((natom,natom)); the filling loop is left blank   *)
(* ("YOUR CODE HERE"), so cm is returned as allocated.  geom is not read.  *)
(* The result is the outcome of the call: the exception raised ("none"     *)
(* for a normal return) and the returned array.                            *)
(***************************************************************************)
coulomb(geom, q) ==
    LET natom == Len(q)
        cm == np_zeros(natom)
    IN  [exc |-> "none", value |-> cm]

(* coulomb(geom, q, lambda_vector, alpha): the notebook defines coulomb    *)
(* with the two parameters geom and q only, so a call with four            *)
(* positional arguments raises TypeError before the body runs.             *)
coulomb_field(geom, q, lambda_vector, alpha) ==
    [exc |-> "TypeError", value |-> <<>>]

(***************************************************************************)
(* psi4, an external library, as the data-generation cell uses it.         *)
(* psi4.geometry builds water from the Z-matrix  O / H 1 r / H 1 r 2 104.5 *)
(* with r in Angstrom, and mol.geometry() returns Cartesian coordinates in *)
(* Bohr.  ZMatrixWater places O at the origin, the first H on the z axis   *)
(* and the second H in the yz plane; psi4 returns the same molecule up to  *)
(* a rigid motion.                                                         *)
(***************************************************************************)
ZMatrixWater(r) ==
    << <<0, 0, 0>>,
       <<0, 0, r>>,
       <<0, (r * SinHOH) \div 10000, (r * CosHOH) \div 10000>> >>

(* r100 is a bond length in 1/100 Angstrom; the result is in 1e-4 Bohr *)
psi4_geometry(r100) == ZMatrixWater((r100 * BohrPerAngstromE6) \div 10000)

(* mol.fZ(a): nuclear charge of atom a of water (O, H, H), a from 0 *)
fZ(a) == IF a = 0 THEN 8 ELSE 1

(* psi4.energy('scf') of the molecule with bond length r100: an opaque     *)
(* number determined by the geometry                                       *)
psi4_energy(r100) == <<"scf", r100>>

(***************************************************************************)
(* A fresh numpy array gets a reference no live array has.                 *)
(***************************************************************************)
(* hands out the first reference again: a module-level buffer reused *)
Alloc_reuse(h) == 1

Alloc(h) == Cardinality(DOMAIN h) + 1

Store(h, ref, a) == [r \in (DOMAIN h) \cup {ref} |-> IF r = ref THEN a ELSE h[r]]

NoCall ==
    [form |-> "none", geom |-> <<>>, q |-> <<>>, lambda_vector |-> <<0, 0, 0>>,
     alpha |-> 0, exc |-> "none", value |-> <<>>]

(* the training cells have not run *)
NoML ==
    [trainers |-> <<>>, X_train |-> <<>>, y_train |-> <<>>, testers |-> <<>>,
     X_test |-> <<>>, y_test |-> <<>>, y_pred |-> <<>>, log |-> <<>>]

(* the ESOL kernel before any cell has run *)
NoESOL ==
    [pc |-> "off", runs |-> 0, defined |-> {}, err |-> "none", n |-> 0, split |-> {},
     train |-> {}, test |-> {},
     scaler |-> [fitted |-> FALSE, rows |-> {}, mean |-> [num |-> 0, den |-> 1]],
     train_scaled |-> [rows |-> {}, by |-> <<>>],
     test_scaled |-> [rows |-> {}, by |-> <<>>], log |-> <<>>]

(***************************************************************************)
(* Spec: the kernel.  A fresh kernel has no globals.                       *)
(***************************************************************************)
Init ==
    /\ pc = "idle"
    /\ defined = {}
    /\ geoms = <<>>
    /\ qs = <<>>
    /\ Es = <<>>
    /\ rs = <<>>
    /\ couls = <<>>
    /\ coul = 0
    /\ it = 0
    /\ heap = <<>>
    /\ err = "none"
    /\ runs = 0
    /\ call = NoCall
    /\ ml = NoML
    /\ esol = NoESOL
    /\ par = <<>>

(* the cell without its four list initialisations: a second execution     *)
(* appends to the lists of the first                                       *)
DataCellStart_keep ==
    /\ pc = "idle"
    /\ runs < MaxRuns
    /\ runs' = runs + 1
    /\ defined' = defined \cup {"geoms", "qs", "Es", "rs"}
    /\ it' = 0
    /\ err' = "none"
    /\ pc' = "data_rs"
    /\ UNCHANGED <<geoms, qs, Es, rs, couls, coul, heap, call, ml, esol, par>>

(* Data-generation cell: the four list initialisations *)
DataCellStart ==
    /\ pc = "idle"
    /\ runs < MaxRuns
    /\ runs' = runs + 1
    /\ geoms' = <<>>
    /\ qs' = <<>>
    /\ Es' = <<>>
    /\ rs' = <<>>
    /\ defined' = defined \cup {"geoms", "qs", "Es", "rs"}
    /\ it' = 0
    /\ err' = "none"
    /\ pc' = "data_rs"
    /\ UNCHANGED <<couls, coul, heap, call, ml, esol, par>>

(* for i in range(0,31): rs.append(0.5 + i*0.05), in 1/100 Angstrom *)
DataRsAppend ==
    /\ pc = "data_rs"
    /\ it < NPoints
    /\ rs' = Append(rs, RStart + it * RStep)
    /\ it' = it + 1
    /\ UNCHANGED <<pc, defined, geoms, qs, Es, couls, coul, heap, err, runs, call, ml, esol, par>>

DataRsDone ==
    /\ pc = "data_rs"
    /\ it = NPoints
    /\ pc' = "data_loop"
    /\ it' = 0
    /\ UNCHANGED <<defined, geoms, qs, Es, rs, couls, coul, heap, err, runs, call, ml, esol, par>>

(* One iteration of "for i in rs": geometry, charges and energy are saved *)
DataLoopIter ==
    /\ pc = "data_loop"
    /\ it < Len(rs)
    /\ LET r == rs[it + 1]
           q == [a \in 1..NWaterAtoms |-> fZ(a - 1)]
       IN  /\ geoms' = Append(geoms, psi4_geometry(r))
           /\ qs' = Append(qs, q)
           /\ Es' = Append(Es, psi4_energy(r))
    /\ it' = it + 1
    /\ UNCHANGED <<pc, defined, rs, couls, coul, heap, err, runs, call, ml, esol, par>>

DataLoopDone ==
    /\ pc = "data_loop"
    /\ it = Len(rs)
    /\ pc' = "idle"
    /\ UNCHANGED <<defined, geoms, qs, Es, rs, couls, coul, it, heap, err, runs, call, ml, esol, par>>

(* Coulomb-matrix cell: def coulomb, couls = [], range(0,len(geoms)).      *)
(* In a kernel where geoms was never assigned, len(geoms) raises NameError *)
(* after couls has been assigned.                                          *)
BatchCellStart ==
    /\ pc = "idle"
    /\ runs < MaxRuns
    /\ runs' = runs + 1
    /\ couls' = <<>>
    /\ defined' = defined \cup {"couls"}
    /\ it' = 0
    /\ IF "geoms" \in defined
         THEN pc' = "batch_loop" /\ err' = "none"
         ELSE pc' = "idle" /\ err' = "NameError"
    /\ UNCHANGED <<geoms, qs, Es, rs, coul, heap, call, ml, esol, par>>

(* coul = coulomb(geoms[i],qs[i]) *)
BatchCall ==
    /\ pc = "batch_loop"
    /\ it < Len(geoms)
    /\ IF it + 1 > Len(qs)
         THEN /\ err' = "IndexError"
              /\ pc' = "idle"
              /\ UNCHANGED <<coul, heap, defined>>
         ELSE LET res == coulomb(geoms[it + 1], qs[it + 1])
                  ref == Alloc(heap)
              IN  IF res.exc = "none"
                    THEN /\ heap' = Store(heap, ref, res.value)
                         /\ coul' = ref
                         /\ defined' = defined \cup {"coul"}
                         /\ pc' = "batch_append"
                         /\ UNCHANGED err
                    ELSE /\ err' = res.exc
                         /\ pc' = "idle"
                         /\ UNCHANGED <<coul, heap, defined>>
    /\ UNCHANGED <<geoms, qs, Es, rs, couls, it, runs, call, ml, esol, par>>

(* couls.insert(0, coul): the new matrix goes to the front of couls *)
BatchAppend_front ==
    /\ pc = "batch_append"
    /\ couls' = <<coul>> \o couls
    /\ it' = it + 1
    /\ pc' = "batch_loop"
    /\ UNCHANGED <<defined, geoms, qs, Es, rs, coul, heap, err, runs, call, ml, esol, par>>

(* couls.append(coul) *)
BatchAppend ==
    /\ pc = "batch_append"
    /\ couls' = Append(couls, coul)
    /\ it' = it + 1
    /\ pc' = "batch_loop"
    /\ UNCHANGED <<defined, geoms, qs, Es, rs, coul, heap, err, runs, call, ml, esol, par>>

BatchDone ==
    /\ pc = "batch_loop"
    /\ it = Len(geoms)
    /\ pc' = "idle"
    /\ UNCHANGED <<defined, geoms, qs, Es, rs, couls, coul, it, heap, err, runs, call, ml, esol, par>>

(***************************************************************************)
(* Training cell: training set, prediction set, LinearRegression.          *)
(***************************************************************************)
NTesters == 31

Trainers == <<0, 7, 15, 23>>

Range(s) == {s[k] : k \in DOMAIN s}

(* sorted(s) of a list of distinct integers: ascending *)
sorted_plain(s) ==
    [k \in 1..Len(s) |->
        CHOOSE x \in Range(s) : Cardinality({y \in Range(s) : y < x}) = k - 1]

(* sorted(s, reverse=True) of a list of distinct integers: descending *)
sorted_reverse(s) ==
    [k \in 1..Len(s) |->
        CHOOSE x \in Range(s) : Cardinality({y \in Range(s) : y > x}) = k - 1]

(* del s[t], t counted from 0 *)
DelAt(s, t) == [k \in 1..(Len(s) - 1) |-> IF k <= t THEN s[k] ELSE s[k + 1]]

(* ndarray.flatten(): the rows one after the other, in a new array *)
Flatten(m) ==
    LET n == Len(m)
    IN  [k \in 1..(n * n) |-> m[((k - 1) \div n) + 1][((k - 1) % n) + 1]]

(* the geometry indices of a list of rows *)
RowIdx(rows) == {rows[k].idx : k \in DOMAIN rows}

(* fit is given the training and the test rows together *)
FitRows_all(xtrain, xtest) == xtrain \o xtest

(* the rows given to fit: fit(X_train,y_train) *)
FitRows(xtrain, xtest) == xtrain

(* a fit/predict call as it is recorded: the model, the feature rows and   *)
(* the energies it was given                                               *)
Event(op, model, rows, ys) ==
    [op |-> op, model |-> model, rows |-> RowIdx(rows), targets |-> RowIdx(ys)]

(* sklearn rejects a fit on fewer than minRows samples with ValueError *)
FitError(rows, minRows) == Len(rows) < minRows

(* trainers = [0,7,15,23]; X_train = []; y_train = [] *)
TrainCellStart ==
    /\ pc = "idle"
    /\ runs < MaxRuns
    /\ runs' = runs + 1
    /\ ml' = [ml EXCEPT !.trainers = Trainers, !.X_train = <<>>, !.y_train = <<>>]
    /\ defined' = defined \cup {"trainers", "X_train", "y_train"}
    /\ it' = 0
    /\ err' = "none"
    /\ pc' = "train_X"
    /\ UNCHANGED <<geoms, qs, Es, rs, couls, coul, heap, call, esol, par>>

(* for t in trainers: X_train.append(couls[t].flatten()); y_train.append(Es[t]) *)
TrainAppend ==
    /\ pc = "train_X"
    /\ it < Len(ml.trainers)
    /\ LET t == ml.trainers[it + 1]
       IN  IF "couls" \notin defined
             THEN err' = "NameError" /\ pc' = "idle" /\ UNCHANGED <<ml, it>>
           ELSE IF t >= Len(couls)
             THEN err' = "IndexError" /\ pc' = "idle" /\ UNCHANGED <<ml, it>>
           ELSE LET row == [idx |-> t, x |-> Flatten(heap[couls[t + 1]])]
                IN  IF "Es" \notin defined \/ t >= Len(Es)
                      THEN /\ err' = IF "Es" \notin defined THEN "NameError" ELSE "IndexError"
                           /\ pc' = "idle"
                           /\ ml' = [ml EXCEPT !.X_train = Append(@, row)]
                           /\ UNCHANGED it
                      ELSE /\ ml' = [ml EXCEPT !.X_train = Append(@, row),
                                               !.y_train = Append(@, [idx |-> t, y |-> Es[t + 1]])]
                           /\ it' = it + 1
                           /\ UNCHANGED <<err, pc>>
    /\ UNCHANGED <<defined, geoms, qs, Es, rs, couls, coul, heap, runs, call, esol, par>>

(* testers = [] *)
TrainAppendDone ==
    /\ pc = "train_X"
    /\ it = Len(ml.trainers)
    /\ ml' = [ml EXCEPT !.testers = <<>>]
    /\ defined' = defined \cup {"testers"}
    /\ it' = 0
    /\ pc' = "train_testers"
    /\ UNCHANGED <<geoms, qs, Es, rs, couls, coul, heap, err, runs, call, esol, par>>

(* for i in range(0,31): testers.append(i) *)
TestersAppend ==
    /\ pc = "train_testers"
    /\ it < NTesters
    /\ ml' = [ml EXCEPT !.testers = Append(@, it)]
    /\ it' = it + 1
    /\ UNCHANGED <<pc, defined, geoms, qs, Es, rs, couls, coul, heap, err, runs, call, esol, par>>

TestersDone ==
    /\ pc = "train_testers"
    /\ it = NTesters
    /\ it' = 0
    /\ pc' = "train_del"
    /\ UNCHANGED <<defined, geoms, qs, Es, rs, couls, coul, heap, err, runs, call, ml, esol, par>>

(* for t in sorted(trainers,reverse=True): del testers[t] *)
TestersDelete ==
    /\ pc = "train_del"
    /\ it < Len(ml.trainers)
    /\ LET t == sorted_reverse(ml.trainers)[it + 1]
       IN  IF t >= Len(ml.testers)
             THEN err' = "IndexError" /\ pc' = "idle" /\ UNCHANGED <<ml, it>>
             ELSE /\ ml' = [ml EXCEPT !.testers = DelAt(@, t)]
                  /\ it' = it + 1
                  /\ UNCHANGED <<err, pc>>
    /\ UNCHANGED <<defined, geoms, qs, Es, rs, couls, coul, heap, runs, call, esol, par>>

(* X_test = []; y_test = [] *)
TestersDeleteDone ==
    /\ pc = "train_del"
    /\ it = Len(ml.trainers)
    /\ ml' = [ml EXCEPT !.X_test = <<>>, !.y_test = <<>>]
    /\ defined' = defined \cup {"X_test", "y_test"}
    /\ it' = 0
    /\ pc' = "train_test"
    /\ UNCHANGED <<geoms, qs, Es, rs, couls, coul, heap, err, runs, call, esol, par>>

(* for t in testers: X_test.append(couls[t].flatten()); y_test.append(Es[t]) *)
TestAppend ==
    /\ pc = "train_test"
    /\ it < Len(ml.testers)
    /\ LET t == ml.testers[it + 1]
       IN  IF t >= Len(couls)
             THEN err' = "IndexError" /\ pc' = "idle" /\ UNCHANGED <<ml, it>>
           ELSE LET row == [idx |-> t, x |-> Flatten(heap[couls[t + 1]])]
                IN  IF t >= Len(Es)
                      THEN /\ err' = "IndexError"
                           /\ pc' = "idle"
                           /\ ml' = [ml EXCEPT !.X_test = Append(@, row)]
                           /\ UNCHANGED it
                      ELSE /\ ml' = [ml EXCEPT !.X_test = Append(@, row),
                                               !.y_test = Append(@, [idx |-> t, y |-> Es[t + 1]])]
                           /\ it' = it + 1
                           /\ UNCHANGED <<err, pc>>
    /\ UNCHANGED <<defined, geoms, qs, Es, rs, couls, coul, heap, runs, call, esol, par>>

TestAppendDone ==
    /\ pc = "train_test"
    /\ it = Len(ml.testers)
    /\ pc' = "train_fit"
    /\ UNCHANGED <<defined, geoms, qs, Es, rs, couls, coul, it, heap, err, runs, call, ml, esol, par>>

(* reg = LinearRegression().fit(X_train,y_train) *)
TrainFit ==
    /\ pc = "train_fit"
    /\ LET rows == FitRows(ml.X_train, ml.X_test)
       IN  /\ ml' = [ml EXCEPT !.log = Append(@, Event("fit", "reg", rows, ml.y_train))]
           /\ IF FitError(rows, 1)
                THEN err' = "ValueError" /\ pc' = "idle" /\ UNCHANGED defined
                ELSE /\ defined' = defined \cup {"reg"}
                     /\ pc' = "train_predict"
                     /\ UNCHANGED err
    /\ UNCHANGED <<geoms, qs, Es, rs, couls, coul, it, heap, runs, call, esol, par>>

(* y_pred = reg.predict(X_test) *)
TrainPredict ==
    /\ pc = "train_predict"
    /\ ml' = [ml EXCEPT !.log = Append(@, Event("predict", "reg", ml.X_test, <<>>)),
                        !.y_pred = [k \in DOMAIN ml.X_test |-> <<"reg", ml.X_test[k].idx>>]]
    /\ defined' = defined \cup {"y_pred"}
    /\ pc' = "idle"
    /\ UNCHANGED <<geoms, qs, Es, rs, couls, coul, it, heap, err, runs, call, esol, par>>

(***************************************************************************)
(* Kernel-ridge cell: krr, parameters, GridSearchCV(cv=4), fit, predict.   *)
(***************************************************************************)
KrrFolds == 4

(* krr_regressor.fit(X_train,y_train) *)
KrrCellStart ==
    /\ pc = "idle"
    /\ runs < MaxRuns
    /\ runs' = runs + 1
    /\ IF "X_train" \notin defined \/ "y_train" \notin defined
         THEN /\ err' = "NameError"
              /\ pc' = "idle"
              /\ defined' = defined \cup {"krr", "parameters", "krr_regressor"}
              /\ UNCHANGED ml
         ELSE LET rows == FitRows(ml.X_train, ml.X_test)
              IN  /\ ml' = [ml EXCEPT !.log = Append(@, Event("fit", "krr_regressor", rows, ml.y_train))]
                  /\ defined' = defined \cup {"krr", "parameters", "krr_regressor"}
                  /\ IF FitError(rows, KrrFolds)
                       THEN err' = "ValueError" /\ pc' = "idle"
                       ELSE err' = "none" /\ pc' = "krr_predict"
    /\ UNCHANGED <<geoms, qs, Es, rs, couls, coul, it, heap, call, esol, par>>

(* y_pred = krr_regressor.predict(X_test) *)
KrrPredict ==
    /\ pc = "krr_predict"
    /\ IF "X_test" \notin defined
         THEN err' = "NameError" /\ UNCHANGED <<ml, defined>>
         ELSE /\ ml' = [ml EXCEPT !.log = Append(@, Event("predict", "krr_regressor", ml.X_test, <<>>)),
                                  !.y_pred = [k \in DOMAIN ml.X_test |->
                                                <<"krr_regressor", ml.X_test[k].idx>>]]
              /\ defined' = defined \cup {"y_pred"}
              /\ UNCHANGED err
    /\ pc' = "idle"
    /\ UNCHANGED <<geoms, qs, Es, rs, couls, coul, it, heap, runs, call, esol, par>>

(***************************************************************************)
(* Hypersurface cell: geoms = []; qs = []; Es = np.zeros((len(rs),len(rs)));*)
(* rs = [].  The rest of the cell is left blank ("YOUR CODE HERE").         *)
(* Es is allocated before rs is reassigned, so its side is the length rs    *)
(* has when the cell starts.                                                *)
(***************************************************************************)
(* psi4.set_options; geoms = []; qs = [] *)
HyperCellStart ==
    /\ pc = "idle"
    /\ runs < MaxRuns
    /\ runs' = runs + 1
    /\ geoms' = <<>>
    /\ qs' = <<>>
    /\ defined' = defined \cup {"geoms", "qs"}
    /\ err' = "none"
    /\ pc' = "hyper_Es"
    /\ UNCHANGED <<Es, rs, couls, coul, it, heap, call, ml, esol, par>>

(* Es = np.zeros((len(rs),len(rs))): NameError in a kernel without rs *)
HyperEs ==
    /\ pc = "hyper_Es"
    /\ IF "rs" \notin defined
         THEN err' = "NameError" /\ pc' = "idle" /\ UNCHANGED <<Es, defined>>
         ELSE /\ Es' = np_zeros(Len(rs))
              /\ defined' = defined \cup {"Es"}
              /\ pc' = "hyper_rs"
              /\ UNCHANGED err
    /\ UNCHANGED <<geoms, qs, rs, couls, coul, it, heap, runs, call, ml, esol, par>>

(* rs = [] *)
HyperRs ==
    /\ pc = "hyper_rs"
    /\ rs' = <<>>
    /\ pc' = "idle"
    /\ UNCHANGED <<defined, geoms, qs, Es, couls, coul, it, heap, err, runs, call, ml, esol, par>>

Next ==
    \/ DataCellStart
    \/ DataRsAppend
    \/ DataRsDone
    \/ DataLoopIter
    \/ DataLoopDone
    \/ BatchCellStart
    \/ BatchCall
    \/ BatchAppend
    \/ BatchDone
    \/ TrainCellStart
    \/ TrainAppend
    \/ TrainAppendDone
    \/ TestersAppend
    \/ TestersDone
    \/ TestersDelete
    \/ TestersDeleteDone
    \/ TestAppend
    \/ TestAppendDone
    \/ TrainFit
    \/ TrainPredict
    \/ KrrCellStart
    \/ KrrPredict
    \/ HyperCellStart
    \/ HyperEs
    \/ HyperRs

Spec == Init /\ [][Next]_vars

(***************************************************************************)
(* SpecData: the kernel executing the symmetric-stretch data-generation    *)
(* cell again and again, a bounded number of times; runs counts the        *)
(* executions of that cell.                                                *)
(***************************************************************************)
NextData ==
    \/ DataCellStart
    \/ DataRsAppend
    \/ DataRsDone
    \/ DataLoopIter
    \/ DataLoopDone

SpecData == Init /\ [][NextData]_vars

(***************************************************************************)
(* SpecCall: one call of coulomb.  The arguments are drawn from bounded    *)
(* sets: geometries of up to MaxAtoms atoms on a small grid whose pairwise *)
(* distances are integers, charge lists of up to MaxAtoms charges, and two *)
(* water geometries with charges [8,1,1].                                  *)
(***************************************************************************)
Grid == {<<0, 0, 0>>, <<0, 3, 0>>, <<0, 0, 4>>, <<0, 3, 4>>}

Charges == {0, 1, 8}

Lambdas == {<<0, 0, 1>>, <<0, 1, 2>>}

Alphas == {0, 1}

SeqsUpTo(S, n) == UNION {[1..k -> S] : k \in 0..n}

(* O-H distance 0.9584 in units of 1e-4 *)
WaterEq == ZMatrixWater(9584)

(* first geometry of the symmetric stretch: O-H length 0.5 Angstrom *)
WaterFirst == psi4_geometry(RStart)

WaterQ == [a \in 1..NWaterAtoms |-> fZ(a - 1)]

Inputs ==
    {[geom |-> g, q |-> q] : g \in SeqsUpTo(Grid, MaxAtoms), q \in SeqsUpTo(Charges, MaxAtoms)}
      \cup {[geom |-> WaterEq, q |-> WaterQ], [geom |-> WaterFirst, q |-> WaterQ]}

InitCall ==
    /\ pc = "idle"
    /\ defined = {}
    /\ geoms = <<>>
    /\ qs = <<>>
    /\ Es = <<>>
    /\ rs = <<>>
    /\ couls = <<>>
    /\ coul = 0
    /\ it = 0
    /\ heap = <<>>
    /\ err = "none"
    /\ runs = 0
    /\ \E a \in Inputs : call = [NoCall EXCEPT !.form = "pending", !.geom = a.geom, !.q = a.q]
    /\ ml = NoML
    /\ esol = NoESOL
    /\ par = <<>>

(* coulomb(geom, q) *)
CallBase ==
    /\ call.form = "pending"
    /\ LET res == coulomb(call.geom, call.q)
       IN  call' = [call EXCEPT !.form = "base", !.exc = res.exc, !.value = res.value]
    /\ UNCHANGED nbvars

(* coulomb(geom, q, lambda_vector, alpha) *)
CallField ==
    /\ call.form = "pending"
    /\ \E l \in Lambdas, a \in Alphas :
         LET res == coulomb_field(call.geom, call.q, l, a)
         IN  call' = [call EXCEPT !.form = "field", !.lambda_vector = l, !.alpha = a,
                                  !.exc = res.exc, !.value = res.value]
    /\ UNCHANGED nbvars

NextCall ==
    \/ CallBase
    \/ CallField

SpecCall == InitCall /\ [][NextCall]_vars

(***************************************************************************)
(* SpecPar: the iterations of the batch loop taken in any order.  Each     *)
(* geometry of a batch gets its own computation, the loop body             *)
(* coul = coulomb(geoms[i],qs[i]); the computations run in any             *)
(* interleaving and each result is collected at its index i.  The batch    *)
(* is drawn from atom lists of different sizes, so that a result computed  *)
(* from another geometry's data is told apart.                             *)
(***************************************************************************)
MaxBatch == 3

ParInputs ==
    { [geom |-> << <<0, 0, 0>> >>, q |-> <<1>>],
      [geom |-> << <<0, 0, 0>>, <<0, 3, 0>> >>, q |-> <<8, 1>>],
      [geom |-> WaterFirst, q |-> WaterQ] }

ParBatches == UNION {[1..k -> ParInputs] : k \in 1..MaxBatch}

(* the computation takes its arguments at the shared count of started      *)
(* computations instead of its own index                                   *)
TaskArgs_counter(k, started) == [geom |-> geoms[started + 1], q |-> qs[started + 1]]

(* the arguments of computation k: geoms[i], qs[i] with i = k *)
TaskArgs(k, started) == [geom |-> geoms[k], q |-> qs[k]]

InitPar ==
    /\ pc = "par"
    /\ \E b \in ParBatches :
         /\ geoms = [k \in DOMAIN b |-> b[k].geom]
         /\ qs = [k \in DOMAIN b |-> b[k].q]
         /\ couls = [k \in DOMAIN b |-> 0]
         /\ par = [k \in DOMAIN b |-> 0]
    /\ defined = {"geoms", "qs", "couls"}
    /\ Es = <<>>
    /\ rs = <<>>
    /\ coul = 0
    /\ it = 0
    /\ heap = <<>>
    /\ err = "none"
    /\ runs = 0
    /\ call = NoCall
    /\ ml = NoML
    /\ esol = NoESOL

(* computation k runs coulomb on its arguments; 0 marks "not yet", -1 a    *)
(* computation that raised                                                 *)
ParCall(k) ==
    /\ pc = "par"
    /\ par[k] = 0
    /\ LET a == TaskArgs(k, it)
           res == coulomb(a.geom, a.q)
           ref == Alloc(heap)
       IN  IF res.exc = "none"
             THEN /\ heap' = Store(heap, ref, res.value)
                  /\ par' = [par EXCEPT ![k] = ref]
                  /\ UNCHANGED err
             ELSE /\ err' = res.exc
                  /\ par' = [par EXCEPT ![k] = -1]
                  /\ UNCHANGED heap
    /\ it' = it + 1
    /\ UNCHANGED <<pc, defined, geoms, qs, Es, rs, couls, coul, runs, call, ml, esol>>

(* the result of computation k is collected at index k *)
ParCollect(k) ==
    /\ pc = "par"
    /\ par[k] > 0
    /\ couls[k] = 0
    /\ couls' = [couls EXCEPT ![k] = par[k]]
    /\ UNCHANGED <<pc, defined, geoms, qs, Es, rs, coul, it, heap, err, runs, call, ml, esol, par>>

NextPar ==
    \/ \E k \in DOMAIN geoms : ParCall(k)
    \/ \E k \in DOMAIN geoms : ParCollect(k)

SpecPar == InitPar /\ [][NextPar]_vars

(***************************************************************************)
(* SpecBatch: the Coulomb-matrix cell in a kernel whose geoms and qs are   *)
(* any two lists of up to MaxBatch entries, of equal or different lengths. *)
(* The cell is executed a bounded number of times.                         *)
(***************************************************************************)
BatchGeoms == { << <<0, 0, 0>> >>, << <<0, 0, 0>>, <<0, 3, 0>> >> }

BatchCharges == { <<1>>, <<8, 1>> }

InitBatch ==
    /\ pc = "idle"
    /\ geoms \in SeqsUpTo(BatchGeoms, MaxBatch)
    /\ qs \in SeqsUpTo(BatchCharges, MaxBatch)
    /\ defined = {"geoms", "qs"}
    /\ Es = <<>>
    /\ rs = <<>>
    /\ couls = <<>>
    /\ coul = 0
    /\ it = 0
    /\ heap = <<>>
    /\ err = "none"
    /\ runs = 0
    /\ call = NoCall
    /\ ml = NoML
    /\ esol = NoESOL
    /\ par = <<>>

NextBatch ==
    \/ BatchCellStart
    \/ BatchCall
    \/ BatchAppend
    \/ BatchDone

SpecBatch == InitBatch /\ [][NextBatch]_vars

(***************************************************************************)
(* SpecESOL: the kernel of the ESOL notebook, with the data frame df       *)
(* loaded, running the train/test split cell and the StandardScaler cell   *)
(* in any order, a bounded number of times.  Rows of df are 1..n.          *)
(* train_test_split and StandardScaler are sklearn's.  With random_state   *)
(* fixed to 123 the split of a given df is the same at every execution:    *)
(* the test rows are drawn once, with the data.                            *)
(***************************************************************************)
MaxRows == 6

(* test_size=0.2: sklearn takes ceil(0.2 * n) rows for the test set *)
TestSizePercent == 20

NTest(n) == (n * TestSizePercent + 99) \div 100

notesol == <<pc, defined, geoms, qs, Es, rs, couls, coul, it, heap, err, runs, call, ml, par>>

(* the value of the feature clogP in row r: an opaque number per row *)
Feature(r) == r

RECURSIVE SumFeatures(_)
SumFeatures(R) ==
    IF R = {} THEN 0
    ELSE LET r == CHOOSE x \in R : TRUE IN Feature(r) + SumFeatures(R \ {r})

(* the scaler is fitted on the whole feature column *)
ScalerFitRows_all(train, test) == train \cup test

(* the rows the scaler is fitted on: scaler.fit_transform(x_train) *)
ScalerFitRows(train, test) == train

(* StandardScaler.fit: the rows seen and their mean *)
scaler_fit(R) ==
    [fitted |-> TRUE, rows |-> R, mean |-> Quot(SumFeatures(R), Cardinality(R))]

InitESOL ==
    /\ pc = "idle"
    /\ defined = {}
    /\ geoms = <<>>
    /\ qs = <<>>
    /\ Es = <<>>
    /\ rs = <<>>
    /\ couls = <<>>
    /\ coul = 0
    /\ it = 0
    /\ heap = <<>>
    /\ err = "none"
    /\ runs = 0
    /\ call = NoCall
    /\ ml = NoML
    /\ par = <<>>
    /\ \E n \in 1..MaxRows :
         \E T \in SUBSET (1..n) :
            /\ Cardinality(T) = NTest(n)
            /\ esol = [NoESOL EXCEPT !.pc = "idle", !.n = n, !.split = T,
                                     !.defined = {"df"}]

(* X, x, y; train_test_split(x, y, test_size=0.2, random_state=123,        *)
(* shuffle=True); the four reshapes.  An empty training set is rejected    *)
(* by train_test_split with ValueError.                                    *)
SplitCell ==
    /\ esol.pc = "idle"
    /\ esol.runs < MaxRuns
    /\ IF esol.n - NTest(esol.n) = 0
         THEN esol' = [esol EXCEPT !.runs = @ + 1, !.err = "ValueError",
                                   !.defined = @ \cup {"X", "x", "y"}]
         ELSE esol' = [esol EXCEPT !.runs = @ + 1, !.err = "none",
                                   !.train = (1..esol.n) \ esol.split,
                                   !.test = esol.split,
                                   !.defined = @ \cup {"X", "x", "y", "x_train", "x_test",
                                                       "y_train", "y_test"},
                                   !.log = Append(@, [op |-> "split", rows |-> 1..esol.n,
                                                      train |-> (1..esol.n) \ esol.split,
                                                      test |-> esol.split])]
    /\ UNCHANGED notesol

(* scaler = StandardScaler() *)
ScalerCellStart ==
    /\ esol.pc = "idle"
    /\ esol.runs < MaxRuns
    /\ esol' = [esol EXCEPT !.runs = @ + 1, !.err = "none", !.pc = "scale_fit",
                            !.scaler = [fitted |-> FALSE, rows |-> {}, mean |-> Zero],
                            !.defined = @ \cup {"scaler"}]
    /\ UNCHANGED notesol

(* x_train_scaled = scaler.fit_transform(x_train) *)
ScalerFitTransform ==
    /\ esol.pc = "scale_fit"
    /\ IF "x_train" \notin esol.defined
         THEN esol' = [esol EXCEPT !.err = "NameError", !.pc = "idle"]
         ELSE LET R == ScalerFitRows(esol.train, esol.test)
              IN  esol' = [esol EXCEPT !.scaler = scaler_fit(R),
                                       !.train_scaled = [rows |-> esol.train, by |-> scaler_fit(R)],
                                       !.defined = @ \cup {"x_train_scaled"},
                                       !.pc = "scale_transform",
                                       !.log = Append(@, [op |-> "fit", rows |-> R,
                                                          train |-> esol.train,
                                                          test |-> esol.test])]
    /\ UNCHANGED notesol

(* x_test_scaled = scaler.transform(x_test) *)
ScalerTransform ==
    /\ esol.pc = "scale_transform"
    /\ esol' = [esol EXCEPT !.test_scaled = [rows |-> esol.test, by |-> esol.scaler],
                            !.defined = @ \cup {"x_test_scaled"},
                            !.pc = "idle",
                            !.log = Append(@, [op |-> "transform", rows |-> esol.test,
                                               train |-> esol.train, test |-> esol.test])]
    /\ UNCHANGED notesol

(* pipeline_multi_feature_linear = make_pipeline(scaler, multi_feature_model):  *)
(* no cell of the notebook assigns multi_feature_model (or scaler, before the  *)
(* scaler cell), so the first statement of the cross-validation cell raises    *)
(* NameError and cross_val_score is not reached.                               *)
PipelineCell ==
    /\ esol.pc = "idle"
    /\ esol.runs < MaxRuns
    /\ esol' = [esol EXCEPT !.runs = @ + 1, !.err = "NameError"]
    /\ UNCHANGED notesol

NextESOL ==
    \/ SplitCell
    \/ ScalerCellStart
    \/ ScalerFitTransform
    \/ ScalerTransform
    \/ PipelineCell

SpecESOL == InitESOL /\ [][NextESOL]_vars

(***************************************************************************)
(* SpecAromatic: one call of aromatic_calc (ESOL notebook) on a molecule   *)
(* drawn from the molecules of up to MaxMolAtoms atoms.  An RDKit molecule *)
(* is taken as the list of its atoms, each with its aromaticity flag.      *)
(***************************************************************************)
MaxMolAtoms == 6

Mols == SeqsUpTo([aromatic : BOOLEAN], MaxMolAtoms)

(* mol.GetAromaticAtoms(): the atoms whose aromatic flag is set *)
GetAromaticAtoms(mol) == SelectSeq(mol, LAMBDA a : a.aromatic)

(* counts the atoms that are not aromatic *)
GetNumAtoms_nonaromatic(mol) == Len(mol) - Len(GetAromaticAtoms(mol))

(* mol.GetNumAtoms(): the number of atoms of the molecule *)
GetNumAtoms(mol) == Len(mol)

(* prop_aromatic = len(mol.GetAromaticAtoms())/mol.GetNumAtoms(); Python's *)
(* division raises ZeroDivisionError on a zero divisor                     *)
aromatic_calc(mol) ==
    LET n == GetNumAtoms(mol)
        a == Len(GetAromaticAtoms(mol))
    IN  IF n = 0
          THEN [exc |-> "ZeroDivisionError", value |-> <<>>]
          ELSE [exc |-> "none", value |-> Quot(a, n)]

InitAromatic ==
    /\ pc = "idle"
    /\ defined = {}
    /\ geoms = <<>>
    /\ qs = <<>>
    /\ Es = <<>>
    /\ rs = <<>>
    /\ couls = <<>>
    /\ coul = 0
    /\ it = 0
    /\ heap = <<>>
    /\ err = "none"
    /\ runs = 0
    /\ ml = NoML
    /\ esol = NoESOL
    /\ par = <<>>
    /\ \E m \in Mols :
         call = [form |-> "pending", mol |-> m, exc |-> "none", value |-> <<>>]

CallAromatic ==
    /\ call.form = "pending"
    /\ LET res == aromatic_calc(call.mol)
       IN  call' = [call EXCEPT !.form = "aromatic_calc", !.exc = res.exc, !.value = res.value]
    /\ UNCHANGED nbvars

NextAromatic ==
    \/ CallAromatic

SpecAromatic == InitAromatic /\ [][NextAromatic]_vars

(***************************************************************************)
(* Properties                                                              *)
(***************************************************************************)
Atoms(c) == 1..Len(c.q)

(* distinct atoms at exactly the same position *)
Coincident(geom) == \E a, b \in DOMAIN geom : a # b /\ geom[a] = geom[b]

(* a valid atom list: at least one atom, one position per charge,          *)
(* positions pairwise distinct                                             *)
ValidAtoms(c) == Len(c.q) >= 1 /\ Len(c.geom) = Len(c.q) /\ ~Coincident(c.geom)

BaseReturned == call.form = "base"

FieldReturned == call.form = "field"

IsMatrix(m, n) == Len(m) = n /\ \A r \in 1..n : Len(m[r]) = n

(* e = n / d for a quotient of integers n / d, d > 0 *)
EqualsQuot(e, n, d) == e.den # 0 /\ e.num * d = n * e.den

(* e * e * d2 = n * n with e of the sign of n: e = n / sqrt(d2) *)
EqualsOverRoot(e, n, d2) ==
    /\ e.den # 0
    /\ e.num * e.num * d2 = n * n * e.den * e.den
    /\ e.num * e.den * n >= 0

(* |e - v/1e6| <= tol/1e6 *)
WithinE6(e, v, tol) ==
    /\ e.den > 0
    /\ e.num * 1000000 - v * e.den <= tol * e.den
    /\ v * e.den - e.num * 1000000 <= tol * e.den

FloatEq(a, b) ==
    \/ a.den # 0 /\ b.den # 0 /\ a.num * b.den = b.num * a.den
    \/ a.den = 0 /\ b.den = 0 /\ a.num * b.num > 0

(* the matrix printed in the notebook, in units of 1e-6 (rounded) *)
ReferenceE6 ==
    << <<73516695, 8466835, 8466835>>,
       <<8466835, 500000, 669260>>,
       <<8466835, 669260, 500000>> >>

MatchesReference(m, tol) ==
    /\ IsMatrix(m, 3)
    /\ \A r \in 1..3 : \A c \in 1..3 : WithinE6(m[r][c], ReferenceE6[r][c], tol)

(* C1: for a valid atom list of at least two atoms, every off-diagonal     *)
(* entry of the matrix coulomb(geom, q) returns is q[i]*q[j] divided by    *)
(* the Euclidean distance of geom[i] and geom[j].                          *)
C1_OffDiagonal ==
    (BaseReturned /\ ValidAtoms(call) /\ Len(call.q) >= 2) =>
        /\ call.exc = "none"
        /\ IsMatrix(call.value, Len(call.q))
        /\ \A a, b \in Atoms(call) :
             a # b => EqualsOverRoot(call.value[a][b], call.q[a] * call.q[b],
                                     Dist2(call.geom[a], call.geom[b]))

(* C2: for a valid atom list, every diagonal entry of the matrix           *)
(* coulomb(geom, q) returns is 0.5 * q[i]^2.4 (to 1e-6).                   *)
C2_Diagonal ==
    (BaseReturned /\ ValidAtoms(call)) =>
        /\ call.exc = "none"
        /\ IsMatrix(call.value, Len(call.q))
        /\ \A a \in Atoms(call) : WithinE6(call.value[a][a], HalfPow2_4E6(call.q[a]), 1)

(* C3: for a valid atom list, the matrix coulomb returns is symmetric:     *)
(* M[i][j] = M[j][i] for all i # j.                                        *)
C3_Symmetric ==
    (BaseReturned /\ ValidAtoms(call)) =>
        /\ call.exc = "none"
        /\ IsMatrix(call.value, Len(call.q))
        /\ \A a, b \in Atoms(call) :
             a # b => FloatEq(call.value[a][b], call.value[b][a])

(* witness of C3: a call on three distinct atoms with nonzero charges has  *)
(* returned                                                                *)
C3_Witness ==
    /\ BaseReturned
    /\ ValidAtoms(call)
    /\ Len(call.q) = 3
    /\ \A a \in Atoms(call) : call.q[a] # 0
    /\ call.exc = "none"

(* C4: after the Coulomb-matrix cell has run on the symmetric-stretch      *)
(* data, couls[0] is the matrix printed in the notebook (checked to 1e-6). *)
C4_FirstMatrix ==
    Len(couls) >= 1 => MatchesReference(heap[couls[1]], 1)

(* C5: water with charges [8,1,1], O-H distance 0.9584 and H-O-H angle     *)
(* 104.5 degrees gives the printed matrix to within 1e-5.                  *)
C5_WaterReference ==
    (BaseReturned /\ call.geom = WaterEq /\ call.q = WaterQ) =>
        /\ call.exc = "none"
        /\ MatchesReference(call.value, 11)

C7_EmptyRaises ==
    (BaseReturned /\ Len(call.geom) = 0 /\ Len(call.q) = 0) =>
        call.exc = "InvalidInput"

(* C7 as amended: with no atoms coulomb raises nothing and returns the     *)
(* 0 x 0 matrix.                                                           *)
C7_EmptyReturnsEmpty ==
    (BaseReturned /\ Len(call.geom) = 0 /\ Len(call.q) = 0) =>
        /\ call.exc = "none"
        /\ call.value = <<>>

(* witness of C7: a call on the empty atom list has been made              *)
C7_Witness ==
    BaseReturned /\ Len(call.geom) = 0 /\ Len(call.q) = 0

(* C8: coulomb(geom, q, lambda_vector, alpha) returns the matrix whose     *)
(* diagonal is 0.5*q[i]^2.4 + alpha*(q[i]*dot(geom[i],lambda_vector))^2    *)
(* and whose off-diagonal entries are those of the base form.              *)
C8_FieldDiagonal ==
    (FieldReturned /\ ValidAtoms(call)) =>
        /\ call.exc = "none"
        /\ IsMatrix(call.value, Len(call.q))
        /\ \A a \in Atoms(call) :
             LET d == call.q[a] * Dot(call.geom[a], call.lambda_vector)
             IN  WithinE6(call.value[a][a],
                          HalfPow2_4E6(call.q[a]) + call.alpha * d * d * 1000000, 1)
        /\ \A a, b \in Atoms(call) :
             a # b => EqualsOverRoot(call.value[a][b], call.q[a] * call.q[b],
                                     Dist2(call.geom[a], call.geom[b]))

(* C9: with alpha = 0 the field-extended call returns the matrix of the    *)
(* base call, entry for entry, whatever lambda_vector is.                  *)
C9_AlphaZeroEqualsBase ==
    (FieldReturned /\ call.alpha = 0 /\ ValidAtoms(call)) =>
        /\ call.exc = "none"
        /\ call.value = coulomb(call.geom, call.q).value

(* C10: a call of coulomb from the batch loop leaves geoms, qs, Es, rs     *)
(* and couls (hence its arguments geoms[i], qs[i]) unchanged, leaves every *)
(* array allocated before as it was, and returns a reference to an array   *)
(* that did not exist before the call.                                     *)
C10_NoSideEffects ==
    [][(pc = "batch_loop" /\ pc' = "batch_append") =>
          /\ geoms' = geoms /\ qs' = qs /\ Es' = Es /\ rs' = rs /\ couls' = couls
          /\ coul' \notin DOMAIN heap
          /\ coul' \in DOMAIN heap'
          /\ \A r \in DOMAIN heap : heap'[r] = heap[r]]_vars

(* witness of C10: a batch call has just returned while couls holds        *)
(* earlier results, and its array is none of them                          *)
C10_Witness ==
    /\ pc = "batch_append"
    /\ Len(couls) >= 1
    /\ \A k \in DOMAIN couls : couls[k] # coul

(***************************************************************************)
(* Relations between calls.  The call made is compared with the result of  *)
(* coulomb on a second, related input.                                     *)
(***************************************************************************)
Perms(n) == {p \in [1..n -> 1..n] : \A a, b \in 1..n : a # b => p[a] # p[b]}

Permuted(s, p) == [a \in DOMAIN s |-> s[p[a]]]

Scales == {2, 3}

Scaled(q, k) == [a \in DOMAIN q |-> k * q[a]]

(* e2 = k^2 * e1 *)
ScaledBySquare(e2, e1, k) ==
    e1.den # 0 /\ e2.den # 0 /\ e2.num * e1.den = k * k * e1.num * e2.den

(* e2 = k^2.4 * e1, as e2^5 = k^12 * e1^5 for entries that are not negative *)
ScaledByPow2_4(e2, e1, k) ==
    /\ e1.den # 0 /\ e2.den # 0
    /\ e1.num * e1.den >= 0 /\ e2.num * e2.den >= 0
    /\ (e2.num * e1.den) * (e2.num * e1.den) * (e2.num * e1.den)
         * (e2.num * e1.den) * (e2.num * e1.den)
       = k * k * k * k * k * k * k * k * k * k * k * k
         * (e1.num * e2.den) * (e1.num * e2.den) * (e1.num * e2.den)
         * (e1.num * e2.den) * (e1.num * e2.den)

(* C11: for a valid atom list and every permutation p of its indices, the  *)
(* matrix M' of the permuted atom list has M'[a][b] = M[p(a)][p(b)].       *)
C11_PermutationEquivariant ==
    (BaseReturned /\ ValidAtoms(call)) =>
        /\ call.exc = "none"
        /\ \A p \in Perms(Len(call.q)) :
             LET res == coulomb(Permuted(call.geom, p), Permuted(call.q, p))
             IN  /\ res.exc = "none"
                 /\ IsMatrix(res.value, Len(call.q))
                 /\ \A a, b \in Atoms(call) :
                      FloatEq(res.value[a][b], call.value[p[a]][p[b]])

(* witness of C11: a call on three distinct atoms whose charges are not    *)
(* all equal has returned                                                  *)
C11_Witness ==
    /\ BaseReturned
    /\ ValidAtoms(call)
    /\ Len(call.q) = 3
    /\ call.q[1] # call.q[2]
    /\ call.exc = "none"

(* C12: multiplying every charge by k # 1 (k = 2, 3), positions fixed,     *)
(* multiplies every off-diagonal entry by k^2 and every diagonal entry by  *)
(* k^2.4.                                                                  *)
C12_ChargeScaling ==
    (BaseReturned /\ ValidAtoms(call)) =>
        /\ call.exc = "none"
        /\ \A k \in Scales :
             LET res == coulomb(call.geom, Scaled(call.q, k))
             IN  /\ res.exc = "none"
                 /\ IsMatrix(res.value, Len(call.q))
                 /\ \A a, b \in Atoms(call) :
                      a # b => ScaledBySquare(res.value[a][b], call.value[a][b], k)
                 /\ \A a \in Atoms(call) :
                      ScaledByPow2_4(res.value[a][a], call.value[a][a], k)

(* witness of C12: a call on at least two distinct charged atoms has       *)
(* returned                                                                *)
C12_Witness ==
    /\ BaseReturned
    /\ ValidAtoms(call)
    /\ Len(call.q) >= 2
    /\ \A a \in Atoms(call) : call.q[a] # 0
    /\ call.exc = "none"
    /\ IsMatrix(call.value, Len(call.q))

(* C13: an atom of charge 0 is accepted without error, and its row, its    *)
(* column and its diagonal entry are 0.                                    *)
C13_ZeroCharge ==
    (BaseReturned /\ Len(call.geom) = Len(call.q)) =>
        \A a \in Atoms(call) :
            call.q[a] = 0 =>
               /\ call.exc = "none"
               /\ IsMatrix(call.value, Len(call.q))
               /\ \A b \in Atoms(call) :
                    /\ EqualsQuot(call.value[a][b], 0, 1)
                    /\ EqualsQuot(call.value[b][a], 0, 1)

(* witness of C13: a call has returned on an atom list with an atom of     *)
(* charge 0 beside a charged atom                                          *)
C13_Witness ==
    /\ BaseReturned
    /\ ValidAtoms(call)
    /\ \E a, b \in Atoms(call) : call.q[a] = 0 /\ call.q[b] # 0
    /\ call.exc = "none"

(* C14: coulomb(geom, q) returns a square matrix of side len(q) for every  *)
(* input, also when len(geom) differs from len(q).                         *)
C14_SquareOfLenQ ==
    BaseReturned =>
        /\ call.exc = "none"
        /\ IsMatrix(call.value, Len(call.q))

(* witness of C14: a call with len(geom) # len(q) has returned             *)
C14_Witness ==
    /\ BaseReturned
    /\ Len(call.q) >= 1
    /\ Len(call.geom) # Len(call.q)
    /\ call.exc = "none"

(* the matrix m has every entry set by the contract for the atom list c *)
ContractMatrix(m, c) ==
    /\ IsMatrix(m, Len(c.q))
    /\ \A a \in Atoms(c) : WithinE6(m[a][a], HalfPow2_4E6(c.q[a]), 1)
    /\ \A a, b \in Atoms(c) :
         a # b => EqualsOverRoot(m[a][b], c.q[a] * c.q[b], Dist2(c.geom[a], c.geom[b]))

(* C15: a call either returns a complete N x N matrix with every entry set *)
(* according to the contract, or fails with InvalidInput and returns       *)
(* nothing.                                                                *)
C15_CompleteOrInvalidInput ==
    (BaseReturned /\ Len(call.geom) = Len(call.q)) =>
        \/ call.exc = "none" /\ ContractMatrix(call.value, call)
        \/ call.exc = "InvalidInput" /\ call.value = <<>>

(***************************************************************************)
(* The training cells                                                      *)
(***************************************************************************)
TrainerSet == {0, 7, 15, 23}

AllGeometries == 0..30

(* the elements of a finite set of integers in ascending order *)
Ascending(S) ==
    [k \in 1..Cardinality(S) |->
        CHOOSE x \in S : Cardinality({y \in S : y < x}) = k - 1]

(* C17: no model is fitted on test data: a fit call is given only feature  *)
(* rows and energies of the geometries in trainers, and a row of another   *)
(* geometry is given to a model only in a predict call that comes after a  *)
(* fit call of that model.                                                 *)
C17_NoFitOnTestData ==
    \A k \in DOMAIN ml.log :
        /\ ml.log[k].op = "fit" =>
              ml.log[k].rows \subseteq TrainerSet /\ ml.log[k].targets \subseteq TrainerSet
        /\ (ml.log[k].rows \ TrainerSet # {}) =>
              /\ ml.log[k].op = "predict"
              /\ \E j \in 1..(k - 1) :
                   ml.log[j].op = "fit" /\ ml.log[j].model = ml.log[k].model

(* witness of C17: both models were fitted on the four training rows and   *)
(* the kernel-ridge model has predicted the 27 test rows                   *)
C17_Witness ==
    /\ \E k \in DOMAIN ml.log :
         ml.log[k].op = "fit" /\ ml.log[k].model = "reg" /\ ml.log[k].rows = TrainerSet
    /\ \E k \in DOMAIN ml.log :
         ml.log[k].op = "fit" /\ ml.log[k].model = "krr_regressor" /\ ml.log[k].rows = TrainerSet
    /\ \E k \in DOMAIN ml.log :
         /\ ml.log[k].op = "predict" /\ ml.log[k].model = "krr_regressor"
         /\ ml.log[k].rows = AllGeometries \ TrainerSet

(* C19: while the trainers are deleted from testers, each del removes the  *)
(* element whose value is a trainer; once the deletions are done, testers  *)
(* is the 27 geometry indices of 0..30 not in trainers, in ascending       *)
(* order, so that trainers and testers are disjoint and cover 0..30.       *)
C19_TestersComplement ==
    /\ pc = "train_del" =>
          /\ AllGeometries \ Range(ml.testers) \subseteq TrainerSet
          /\ Cardinality(AllGeometries \ Range(ml.testers)) = it
          /\ Len(ml.testers) = 31 - it
    /\ ("testers" \in defined /\ pc \notin {"train_testers", "train_del"}) =>
          /\ ml.testers = Ascending(AllGeometries \ TrainerSet)
          /\ Len(ml.testers) = 27
          /\ Range(ml.testers) \cap Range(ml.trainers) = {}
          /\ Range(ml.testers) \cup Range(ml.trainers) = AllGeometries

(* witness of C19: the four deletions are done and the test set is built   *)
C19_Witness ==
    /\ pc = "train_fit"
    /\ ml.trainers = <<0, 7, 15, 23>>
    /\ Len(ml.X_test) = Len(ml.testers)

(* C20: once the symmetric-stretch loop has completed, geoms, qs and Es    *)
(* have exactly 31 entries each, entry i of each belongs to bond length    *)
(* rs[i], and every qs[i] is the same list of 3 nuclear charges.  The loop *)
(* has completed when its iterator is exhausted; its lists stand until the *)
(* hypersurface cell empties geoms.                                        *)
C20_DataLists ==
    (\/ pc = "data_loop" /\ it = Len(rs)
     \/ pc \notin {"data_rs", "data_loop"} /\ "geoms" \in defined /\ geoms # <<>>) =>
        /\ Len(rs) = 31 /\ Len(geoms) = 31 /\ Len(qs) = 31 /\ Len(Es) = 31
        /\ \A k \in 1..31 :
             /\ geoms[k] = psi4_geometry(rs[k])
             /\ Es[k] = psi4_energy(rs[k])
             /\ Len(qs[k]) = 3
             /\ qs[k] = qs[1]
             /\ qs[k] = <<8, 1, 1>>

(* witness of C20: the data-generation cell has run to its end             *)
C20_Witness ==
    /\ pc = "idle"
    /\ {"geoms", "qs", "Es", "rs"} \subseteq defined
    /\ Len(Es) > 0
    /\ Len(geoms) > 0

(* the list the sequential loop builds: entry i is coulomb(geoms[i],qs[i]) *)
SequentialCouls == [k \in DOMAIN geoms |-> coulomb(geoms[k], qs[k]).value]

C18_ScalerFittedOnTrainOnly ==
    /\ \A k \in DOMAIN esol.log :
         /\ esol.log[k].op = "fit" =>
               /\ \E j \in 1..(k - 1) : esol.log[j].op = "split"
               /\ esol.log[k].rows = esol.log[k].train
               /\ esol.log[k].rows \cap esol.log[k].test = {}
         /\ esol.log[k].op = "transform" =>
               /\ k > 1
               /\ esol.log[k - 1].op = "fit"
               /\ esol.log[k].rows = esol.log[k].test
    /\ esol.scaler.fitted =>
         /\ esol.scaler.rows = esol.train
         /\ esol.scaler.rows \cap esol.test = {}
         /\ esol.scaler.mean = Quot(SumFeatures(esol.train), Cardinality(esol.train))

(* witness of C18: after a split into at least two training rows and a     *)
(* test row, the scaler has been fitted and has transformed the test rows  *)
C18_Witness ==
    /\ esol.pc = "idle"
    /\ esol.scaler.fitted
    /\ Cardinality(esol.train) >= 2
    /\ esol.test # {}
    /\ esol.test_scaled.rows = esol.test
    /\ esol.test_scaled.by = esol.scaler

(***************************************************************************)
(* The hypersurface cell                                                   *)
(***************************************************************************)
(* C21: when the hypersurface cell has assigned Es, Es is a square matrix  *)
(* of side 16, the number of bond lengths of the two-bond scan, so that    *)
(* Es.flatten() has 256 elements, as many as y_pred.reshape(16,16).        *)
C21_HypersurfaceEs ==
    pc = "hyper_rs" => (IsMatrix(Es, 16) /\ Len(Flatten(Es)) = 256)

(***************************************************************************)
(* The symmetric-stretch cell                                              *)
(***************************************************************************)
(* C22: the cell builds rs as exactly 31 bond lengths, rs[i] = 0.5 +       *)
(* i*0.05 for i = 0..30 (here in 1/100 Angstrom: 50 + 5 i), strictly       *)
(* increasing from 0.5 to 2.0 in increments of 0.05, and runs one          *)
(* geometry/energy computation per entry, in the order of rs.              *)
C22_BondLengths ==
    /\ pc = "data_rs" =>
          /\ Len(rs) = it
          /\ \A k \in 1..Len(rs) : rs[k] = 50 + (k - 1) * 5
    /\ pc = "data_loop" =>
          /\ Len(rs) = 31
          /\ rs[1] = 50 /\ rs[31] = 200
          /\ \A k \in 1..31 : rs[k] = 50 + (k - 1) * 5
          /\ \A k \in 1..30 : rs[k + 1] - rs[k] = 5
          /\ Len(geoms) = it /\ Len(Es) = it /\ Len(qs) = it
          /\ \A k \in 1..it :
               /\ geoms[k] = psi4_geometry(50 + (k - 1) * 5)
               /\ Es[k] = psi4_energy(50 + (k - 1) * 5)

(* witness of C22: the loop over rs has consumed its 31 entries            *)
C22_Witness ==
    /\ pc = "data_loop"
    /\ it = 31
    /\ Len(geoms) = 31
    /\ Es[31] = psi4_energy(200)

(***************************************************************************)
(* The batch loop                                                          *)
(***************************************************************************)
(* C23: after the batch loop that fills couls, len(couls) = len(geoms)     *)
(* and every couls[i] is the value coulomb returned for (geoms[i], qs[i]); *)
(* the loop completes when len(qs) >= len(geoms) and otherwise fails with  *)
(* IndexError, at the first index qs does not have.                        *)
C23_BatchLoop ==
    /\ (\/ pc = "batch_loop" /\ it = Len(geoms)
        \/ pc = "idle" /\ "couls" \in defined /\ err = "none") =>
          /\ Len(couls) = Len(geoms)
          /\ Len(qs) >= Len(geoms)
          /\ \A i \in DOMAIN couls : heap[couls[i]] = coulomb(geoms[i], qs[i]).value
    /\ (pc = "idle" /\ "couls" \in defined) =>
          /\ err \in {"none", "IndexError"}
          /\ err = "IndexError" <=> Len(qs) < Len(geoms)
          /\ err = "IndexError" => Len(couls) = Len(qs)
    /\ pc \in {"batch_loop", "batch_append"} =>
          \A i \in DOMAIN couls : heap[couls[i]] = coulomb(geoms[i], qs[i]).value

(* witness of C23: the loop has completed on two geometries whose charge   *)
(* lists differ in length, with qs longer than geoms                       *)
C23_Witness ==
    /\ pc = "idle"
    /\ err = "none"
    /\ Len(couls) = 2
    /\ Len(geoms) = 2
    /\ Len(qs) = 3
    /\ Len(qs[1]) # Len(qs[2])

(***************************************************************************)
(* aromatic_calc                                                           *)
(***************************************************************************)
AromaticCount(mol) == Cardinality({k \in DOMAIN mol : mol[k].aromatic})

(* C24: aromatic_calc(mol) returns the number of aromatic atoms of mol     *)
(* divided by its number of atoms; for a molecule of at least one atom the *)
(* result lies between 0 and 1 inclusive, 0 when no atom is aromatic and   *)
(* 1 when all are.                                                         *)
C24_AromaticProportion ==
    (call.form = "aromatic_calc" /\ Len(call.mol) >= 1) =>
        /\ call.exc = "none"
        /\ EqualsQuot(call.value, AromaticCount(call.mol), Len(call.mol))
        /\ call.value.den > 0
        /\ 0 <= call.value.num /\ call.value.num <= call.value.den
        /\ AromaticCount(call.mol) = 0 <=> call.value.num = 0
        /\ AromaticCount(call.mol) = Len(call.mol) <=> call.value.num = call.value.den

(* witness of C24: the call returned for a molecule with aromatic and      *)
(* non-aromatic atoms                                                      *)
C24_Witness ==
    /\ call.form = "aromatic_calc"
    /\ call.exc = "none"
    /\ Len(call.mol) >= 3
    /\ 0 < AromaticCount(call.mol)
    /\ AromaticCount(call.mol) < Len(call.mol)
    /\ call.value = Quot(AromaticCount(call.mol), Len(call.mol))

(***************************************************************************)
(* Re-execution of the data-generation cell                                *)
(***************************************************************************)
(* C25: however many times the data-generation cell is executed, the       *)
(* lists do not accumulate: each execution starts from empty lists, grows  *)
(* them with its own entries only, and leaves geoms, qs, Es and rs with    *)
(* exactly 31 entries each.                                                *)
C25_ReexecutionKeeps31 ==
    /\ pc = "data_rs" =>
          /\ geoms = <<>> /\ qs = <<>> /\ Es = <<>>
          /\ Len(rs) = it /\ it <= 31
    /\ pc = "data_loop" =>
          /\ Len(rs) = 31
          /\ Len(geoms) = it /\ Len(qs) = it /\ Len(Es) = it /\ it <= 31
    /\ (pc = "idle" /\ runs >= 1) =>
          /\ Len(geoms) = 31 /\ Len(qs) = 31 /\ Len(Es) = 31 /\ Len(rs) = 31

(* witness of C25: the cell has been executed three times or more and has  *)
(* run to its end                                                          *)
C25_Witness ==
    /\ pc = "idle"
    /\ runs >= 3
    /\ Len(geoms) = 31 /\ Len(qs) = 31 /\ Len(Es) = 31 /\ Len(rs) = 31

====
